---- MODULE Spec2Model ----
(***************************************************************************)
(* A model of bmart's process supervision (src/src/process.rs):            *)
(*   - kill_pstree and its helpers over an explicit process table,         *)
(*   - command: runner, guard, readers, stdin writer and the control loop  *)
(*     over the capacity-2 channel,                                        *)
(*   - command_pipe: two readers and the wait task over the output channel.*)
(* Time is counted in ticks of SLEEP_STEP (100 ms).                        *)
(***************************************************************************)
EXTENDS Integers, Sequences, FiniteSets, TLC

(* ------------------------------ bounds --------------------------------- *)
\* pids of the modelled process table are 1..NPids; pid 0 stands for "init"
NPids == 3
\* longest grace period (Options::tki / the tki argument), in ticks
MaxGrace == 1

\* longest timeout of command, in ticks
MaxTimeout == 1
\* most lines the child writes, both streams together
MaxLines == 2
\* the child's exit codes are 0..MaxCode
MaxCode == 1

Pids == 1 .. NPids
\* the pid the calls are made on
Root == 1

SIGTERM == "TERM"
SIGKILL == "KILL"

\* Option<T>: None is the empty sequence, Some(x) a one-element sequence
None == << >>
Some(x) == << x >>

VARIABLES
    \* ---- the operating system's process table ----
    alive,        \* set of pids present in the process table
    parent,       \* parent[p]: parent pid of p (0: init, outside the model)
    sent,         \* sent[p]: the signals delivered to p so far
    stubborn,     \* pids that ignore SIGTERM and never exit by themselves
    \* ---- one call of kill_pstree ----
    kpc,          \* "idle" | "call" | "poll" | "done"
    pids,         \* the HashSet `pids` of kill_pstree
    elapsed,      \* now.elapsed(), in ticks
    tki,          \* Option<Duration>, in ticks
    kill_parent,
    tree0,        \* history: the root and its descendants when the call is made
    pass2,        \* history: Some(set signalled by the second pass)
    fresh2,       \* history: Some(set resolved from the table at the second pass)
    \* ---- one call of command ----
    timeout,      \* the timeout argument, in ticks
    faults,       \* history: what has failed: "no" | "out" | "err" | "wait"
    exited,       \* the child: "no" | "code" (exited by itself) | "signal"
    ccode,        \* the exit code the child returned (if exited = "code")
    early,        \* history: the child left while the guard's timeout was running
    wrote,        \* wrote[s]: lines the child has written to stream s
    got,          \* got[s]: lines the reader of stream s has read
    rd,           \* rd[s]: reader task of s: "read"|"send"|"senderr"|"done"|"aborted"
    runner,       \* wait task: "wait"|"sleep"|"send"|"done"|"aborted"
    rframe,       \* the frame the wait task is sending
    rtimer,       \* ticks left of the wait task's sleep(timeout)
    guard,        \* guard task: "sleep"|"poll"|"send"|"done"|"aborted"
    gtimer,       \* ticks left of the guard's current sleep
    stdinW,       \* stdin writer: "none"|"run"|"done"|"failed"|"aborted"
    chan,         \* the bounded channel: frames sent and not yet received
    ctl,          \* control loop: "recv" | "drain" | "ret"
    rcode,        \* result.code
    rout,         \* result.out
    rerr,         \* result.err
    rstatus,      \* "" until command returns, then "Ok" | "Err"
    terminals,    \* history: terminal events the control loop has acted upon
    clock,        \* history: ticks since command was called
    \* ---- one call of command_pipe ----
    ptask,        \* the spawned task: "idle" | "wait" | "select" | "done"
    exit_code,    \* its variable exit_code
    delivered,    \* the frames the caller has received from the Receiver
    \* ---- command with input data and a child that copies stdin to stdout ----
    input_data,   \* Options::input_data: the payload is the lines 1 .. input_data
    inleft,       \* lines of the payload the stdin writer has not yet written
    inpipe,       \* lines in the stdin pipe, written and not yet read by the child
    \* ---- other executions that share the process table ----
    foreign,      \* pids of processes spawned by another execution
    \* ---- SharedLockFactory with one lock_id ----
    apc,          \* apc[n]: call n of acquire: "idle"|"outer"|"insert"|"done"
    hpc,          \* hpc[n]: holder task of n: "none" | "wait" | "locked" |
                  \*   "held" | "woken" | "cleared" | "ended"
    mbox,         \* mbox[n]: messages in the unlock channel of acquisition n
    flag,         \* the AtomicBool of the SharedLock
    entry,        \* locks[lock_id]: None or Some(n): (token of n, Lock of n)
    rpc,          \* a release call suspended in send: None or Some(<<n, token>>)
    rel,          \* history: the last completed call of release
    trues,        \* history: trues[n]: calls of Lock::release on n that returned true
    cause,        \* history: cause[n]: what ended the wait of holder n:
                  \*   "" | "release" | "expire" | "drop"
    expires,      \* expires[n]: `expires` of holder task n, in ticks (0: no task)
    age,          \* history: age[n]: ticks for which holder task n has had the
                  \*   Mutex (0: no task)
    shared_locks, \* the keys of SharedLockFactory::shared_locks
    sres,         \* history: the last result of status, or of acquire that failed
    \* ---- one call of get_child_pids_recursive on a snapshot ----
    wsys,         \* the snapshot `sys`: pid -> parent pid
    wstack,       \* the call stack: one frame per active call
    wto,          \* the set `to`
    wpc,          \* "idle" | "run" | "ret" | "overflow"
    \* ---- WorkerFactory ----
    schedulers,   \* the BTreeMap: worker id -> JoinHandle (index in stasks; 0: no key)
    stasks,       \* the scheduler tasks spawned so far: [id, st: "run" | "aborted"]
    fres,         \* history: the last call: [op, id, res, old, was]
    \* ---- one call of SafeSender::safe_send ----
    qlen,         \* messages in the mpsc channel
    rxopen,       \* the Receiver exists and is not closed
    spc,          \* the call: "idle" | "wait" | "done"
    stimeout,     \* SafeSender::timeout, in ticks
    waited,       \* ticks since the call was made
    sret,         \* None, or Some(result) once the call has returned
    menq,         \* history: how many times the message of the call was enqueued
    fullall,      \* history: the channel was full and open all the time of the call
    \* ---- a worker!() task and the Scheduler of its trigger ----
    wk,           \* the worker task: "spawned" | "waiting" | "notified" | "running"
    instant,      \* the Scheduler runs run_instant (TRUE) or run (FALSE)
    interval,     \* Scheduler::interval, in ticks
    schedt,       \* ticks until sleep_until(t) of the Scheduler is over
    nticks,       \* history: calls of notify_waiters so far
    runs,         \* history: how many times the target was started
    tlast,        \* history: the time of the last notify_waiters
    wclock        \* history: ticks since the Scheduler task started

procVars == << alive, parent, sent, stubborn >>
kpVars == << kpc, pids, elapsed, tki, kill_parent, tree0, pass2, fresh2 >>
childVars == << exited, ccode, early, wrote >>
taskVars == << got, rd, runner, rframe, rtimer, guard, gtimer, stdinW >>
ctlVars == << chan, ctl, rcode, rout, rerr, rstatus, terminals >>
cmdVars == << timeout, faults, childVars, taskVars, ctlVars, clock >>
pipeVars == << ptask, exit_code, delivered >>
inVars == << input_data, inleft, inpipe >>
lockVars == << apc, hpc, mbox, flag, entry, rpc, rel, trues, cause, expires,
               age, shared_locks, sres >>
\* what kill_pstree, command without an echoing child and command_pipe never touch
walkVars == << wsys, wstack, wto, wpc >>
\* the parts of the library that are modelled on their own
facVars == << schedulers, stasks, fres >>
sendVars == << qlen, rxopen, spc, stimeout, waited, sret, menq, fullall >>
workVars == << wk, instant, interval, schedt, nticks, runs, tlast, wclock >>
libVars == << walkVars, facVars, sendVars, workVars >>
extVars == << inVars, foreign, lockVars, libVars >>
vars == << procVars, kpVars, cmdVars, pipeVars, extVars >>

(* ------------------------- process.rs:89-125 --------------------------- *)

\* sys.refresh_processes(): the snapshot pid -> parent pid of the live table
refresh_processes == [p \in alive |-> parent[p]]

RECURSIVE get_child_pids_recursive(_, _, _), VisitProcesses(_, _, _)
\* the body of `for (i, p) in sys.processes()` restricted to the entries
\* whose parent is pid: insert, then recurse
VisitProcesses(kids, sys, to) ==
    IF kids = {} THEN to
    ELSE LET i == CHOOSE k \in kids : TRUE
         IN  VisitProcesses(kids \ {i}, sys,
                            get_child_pids_recursive(i, sys, to \cup {i}))

get_child_pids_recursive(pid, sys, to) ==
    VisitProcesses({i \in DOMAIN sys : sys[i] = pid}, sys, to)

\* a mutant: the root is never inserted
impl_pids_no_parent(pid, sys, old, kp) ==
    get_child_pids_recursive(pid, sys, old)

\* a mutant: every process of the snapshot is taken for a descendant
impl_pids_all(pid, sys, old, kp) == old \cup DOMAIN sys

\* the set `pids` after kill_pstree_with_signal_impl: the old content, the
\* root if kill_parent, and the descendants found in the snapshot
impl_pids(pid, sys, old, kp) ==
    get_child_pids_recursive(pid, sys, IF kp THEN old \cup {pid} ELSE old)

\* signal::kill(cpid, signal) for every cpid of the set; a pid that is not in
\* the process table gets nothing (the error is ignored)
deliver(s, targets, sig) ==
    [p \in Pids |-> IF p \in targets /\ p \in alive
                    THEN s[p] \cup {sig} ELSE s[p]]

(* ------------------------- process.rs:142-166 -------------------------- *)

\* the set handed to the second pass: the same HashSet, not cleared
second_pass_arg(old) == old

\* line 163: kill_pstree_with_signal_impl(pid, sys, pids, SIGKILL, kill_parent)
\* applied to the signals s and the set p
SecondPass(s, p) ==
    LET np == impl_pids(Root, refresh_processes, second_pass_arg(p), kill_parent)
    IN  /\ pids' = np
        /\ sent' = deliver(s, np, SIGKILL)
        /\ pass2' = Some(np)
        /\ fresh2' = Some(impl_pids(Root, refresh_processes, {}, kill_parent))

\* a mutant: the first pass is always graceful
first_signal_term(t) == SIGTERM

\* a mutant: the first pass is always forced
first_signal_kill(t) == SIGKILL

\* lines 145-149: the signal of the first pass
first_signal(t) == IF t # None THEN SIGTERM ELSE SIGKILL

\* lines 143-153: first pass, then the decision whether to wait
KpStart ==
    LET signal == first_signal(tki)
        np == impl_pids(Root, refresh_processes, pids, kill_parent)
        s1 == deliver(sent, np, signal)
    IN  /\ elapsed' = 0
        /\ IF (np # {} \/ kill_parent) /\ tki # None
           THEN IF 0 < tki[1]
                THEN /\ kpc' = "poll"
                     /\ pids' = np
                     /\ sent' = s1
                     /\ UNCHANGED << pass2, fresh2 >>
                ELSE /\ kpc' = "done"
                     /\ SecondPass(s1, np)
           ELSE /\ kpc' = "done"
                /\ pids' = np
                /\ sent' = s1
                /\ UNCHANGED << pass2, fresh2 >>

\* lines 155-163: one sleep(SLEEP_STEP) has ended; probe the root with SIGTERM,
\* leave the loop if that fails or the grace period is over
KpPoll ==
    LET s1 == deliver(sent, {Root}, SIGTERM)
    IN  /\ elapsed' = elapsed + 1
        /\ IF Root \notin alive \/ ~(elapsed + 1 < tki[1])
           THEN /\ kpc' = "done"
                /\ SecondPass(s1, pids)
           ELSE /\ kpc' = "poll"
                /\ sent' = s1
                /\ UNCHANGED << pids, pass2, fresh2 >>

(* ----------------------------- environment ----------------------------- *)

\* a process leaves the table: a stubborn one only after SIGKILL, any other
\* one at any time (by itself or because of a signal); its children are
\* re-parented to init
ProcExit(p) ==
    /\ p \in alive
    /\ p \notin stubborn \/ SIGKILL \in sent[p]
    /\ alive' = alive \ {p}
    /\ parent' = [q \in Pids |-> IF parent[q] = p THEN 0 ELSE parent[q]]
    /\ UNCHANGED << sent, stubborn >>


\* no command_pipe is running
PipeIdle == ptask = "idle" /\ exit_code = 0 /\ delivered = << >>

(* ----------------- the parts that are not in use: at rest --------------- *)

MaxAcq == 2
\* longest `expires` of an acquisition, in ticks
MaxExpire == 2
\* the lock_id that create() has defined, and one that it has not
DefinedId == "l"
LockIds == {DefinedId, "u"}
\* the calls of acquire, in the order in which they are made
Acqs == 1 .. MaxAcq

\* no input data, no other execution, no SharedLockFactory in use
InIdle == input_data = 0 /\ inleft = 0 /\ inpipe = 0
NoForeign == foreign = {}
LockIdle ==
    /\ apc = [n \in Acqs |-> "idle"]
    /\ hpc = [n \in Acqs |-> "none"]
    /\ mbox = [n \in Acqs |-> 0]
    /\ flag = FALSE
    /\ entry = None
    /\ rpc = None
    /\ rel = None
    /\ trues = [n \in Acqs |-> 0]
    /\ cause = [n \in Acqs |-> ""]
    /\ expires = [n \in Acqs |-> 0]
    /\ age = [n \in Acqs |-> 0]
    /\ shared_locks = {DefinedId}
    /\ sres = None
\* no walk of a snapshot is going on
WalkIdle == wsys = << >> /\ wstack = << >> /\ wto = {} /\ wpc = "idle"
\* WorkerFactory::new(): no scheduler
WorkerIds == {"w1", "w2"}
FacIdle ==
    /\ schedulers = [id \in WorkerIds |-> 0]
    /\ stasks = << >>
    /\ fres = None
\* no SafeSender
SendIdle ==
    /\ qlen = 0 /\ rxopen = FALSE /\ spc = "idle" /\ stimeout = 0
    /\ waited = 0 /\ sret = None /\ menq = 0 /\ fullall = FALSE
\* no worker, no Scheduler
WorkIdle ==
    /\ wk = "spawned" /\ instant = FALSE /\ interval = 0 /\ schedt = 0
    /\ nticks = 0 /\ runs = 0 /\ tlast = 0 /\ wclock = 0
LibIdle == WalkIdle /\ FacIdle /\ SendIdle /\ WorkIdle
ExtIdle == InIdle /\ NoForeign /\ LockIdle /\ LibIdle

(* ---------------------- command, process.rs:219-378 -------------------- *)

Streams == {"out", "err"}

\* line 267: async_channel::bounded(2)
ChanCap == 2
\* line 278: the code the wait task reports for a child killed by a signal
KilledCode == -15

Frame(t, v) == [t |-> t, v |-> v]
Tag(s) == IF s = "out" THEN "Stdout" ELSE "Stderr"

\* a mutant: abort() has no effect
abort_nothing(pc) == pc

\* JoinHandle::abort: a task that has not ended is cancelled
Abort(pc) == IF pc \in {"done", "failed", "none"} THEN pc ELSE "aborted"

\* a mutant: the channel is unbounded
has_room_unbounded == TRUE

\* Sender::send completes at once when the channel has room
HasRoom == Len(chan) < ChanCap

\* every Sender has been dropped: the four producers have ended
AllSendersDropped ==
    /\ runner \in {"done", "aborted"}
    /\ guard \in {"done", "aborted"}
    /\ \A s \in Streams : rd[s] \in {"done", "aborted"}

\* ---- reader tasks, lines 305-326 ----

\* next_line() returns a line; send it, or suspend on the full channel
ReaderRead(s) ==
    /\ ctl # "ret" /\ rd[s] = "read" /\ got[s] < wrote[s]
    /\ got' = [got EXCEPT ![s] = @ + 1]
    /\ IF HasRoom
       THEN chan' = Append(chan, Frame(Tag(s), got[s] + 1)) /\ UNCHANGED rd
       ELSE rd' = [rd EXCEPT ![s] = "send"] /\ UNCHANGED chan
    /\ UNCHANGED << procVars, kpVars, timeout, faults, childVars, runner, rframe,
                    rtimer, guard, gtimer, stdinW, ctl, rcode, rout, rerr,
                    rstatus, terminals, clock, pipeVars, extVars >>

\* a suspended send of a line, or of the read error, goes through
ReaderSend(s) ==
    /\ ctl # "ret" /\ rd[s] \in {"send", "senderr"} /\ HasRoom
    /\ chan' = Append(chan, IF rd[s] = "send" THEN Frame(Tag(s), got[s])
                                              ELSE Frame("Error", 0))
    /\ rd' = [rd EXCEPT ![s] = IF rd[s] = "send" THEN "read" ELSE "done"]
    /\ UNCHANGED << procVars, kpVars, timeout, faults, childVars, got, runner,
                    rframe, rtimer, guard, gtimer, stdinW, ctl, rcode, rout,
                    rerr, rstatus, terminals, clock, pipeVars, extVars >>

\* next_line() returns None: every holder of the pipe's write end has gone
ReaderEof(s) ==
    /\ ctl # "ret" /\ rd[s] = "read" /\ got[s] = wrote[s] /\ alive = {}
    /\ rd' = [rd EXCEPT ![s] = "done"]
    /\ UNCHANGED << procVars, kpVars, timeout, faults, childVars, got, runner,
                    rframe, rtimer, guard, gtimer, stdinW, ctlVars, clock, pipeVars, extVars >>

\* next_line() returns Err(e): send CommandFrame::Error(e) and return
ReaderFail(s) ==
    /\ ctl # "ret" /\ faults = "no" /\ rd[s] = "read"
    /\ faults' = s
    /\ IF HasRoom
       THEN /\ chan' = Append(chan, Frame("Error", 0))
            /\ rd' = [rd EXCEPT ![s] = "done"]
       ELSE rd' = [rd EXCEPT ![s] = "senderr"] /\ UNCHANGED chan
    /\ UNCHANGED << procVars, kpVars, timeout, childVars, got, runner,
                    rframe, rtimer, guard, gtimer, stdinW, ctl, rcode, rout,
                    rerr, rstatus, terminals, clock, pipeVars, extVars >>

\* ---- wait task, lines 271-283 ----

\* tx_runner.send(frame): enqueue, or suspend on the full channel
RunnerTrySend(f) ==
    IF HasRoom
    THEN chan' = Append(chan, f) /\ runner' = "done" /\ rframe' = None
    ELSE runner' = "send" /\ rframe' = Some(f) /\ UNCHANGED chan

\* a mutant: the wait task sleeps one SLEEP_STEP less than the guard
killed_sleep_short == timeout - 1

\* line 277: "killed, wait guard to finish": sleep(timeout)
killed_sleep == timeout

\* child.wait() returns Ok(status)
RunnerWake ==
    /\ ctl # "ret" /\ runner = "wait" /\ exited # "no"
    /\ IF exited = "code"
       THEN RunnerTrySend(Frame("Finished", ccode)) /\ UNCHANGED rtimer
       ELSE /\ runner' = "sleep" /\ rtimer' = killed_sleep
            /\ UNCHANGED << rframe, chan >>
    /\ UNCHANGED << procVars, kpVars, timeout, faults, childVars, got, rd,
                    guard, gtimer, stdinW, ctl, rcode, rout, rerr, rstatus,
                    terminals, clock, pipeVars, extVars >>

\* line 277-278: sleep(timeout) is over, report -15
RunnerSlept ==
    /\ ctl # "ret" /\ runner = "sleep" /\ rtimer = 0
    /\ RunnerTrySend(Frame("Finished", KilledCode))
    /\ UNCHANGED << procVars, kpVars, timeout, faults, childVars, got, rd,
                    rtimer, guard, gtimer, stdinW, ctl, rcode, rout, rerr,
                    rstatus, terminals, clock, pipeVars, extVars >>

\* child.wait() returns Err(e); the task ends after the send and drops the
\* child, which kill_on_drop then kills
RunnerWaitErr ==
    /\ ctl # "ret" /\ faults = "no" /\ runner = "wait" /\ exited = "no"
    /\ faults' = "wait"
    /\ RunnerTrySend(Frame("Error", 0))
    /\ sent' = IF HasRoom THEN deliver(sent, {Root}, SIGKILL) ELSE sent
    /\ UNCHANGED << alive, parent, stubborn, kpVars, timeout, childVars,
                    got, rd, rtimer, guard, gtimer, stdinW, ctl, rcode, rout,
                    rerr, rstatus, terminals, clock, pipeVars, extVars >>

RunnerSend ==
    /\ ctl # "ret" /\ runner = "send" /\ HasRoom
    /\ chan' = Append(chan, rframe[1])
    /\ runner' = "done" /\ rframe' = None
    /\ sent' = IF rframe[1].t = "Error" THEN deliver(sent, {Root}, SIGKILL)
               ELSE sent
    /\ UNCHANGED << alive, parent, stubborn, kpVars, timeout, faults, childVars,
                    got, rd, rtimer, guard, gtimer, stdinW, ctl, rcode, rout,
                    rerr, rstatus, terminals, clock, pipeVars, extVars >>

\* ---- guard task, lines 284-294 ----

\* a mutant: Terminated is sent as soon as the kill sequence has started
guard_sends_at_once ==
    /\ gtimer' = 0
    /\ IF HasRoom
       THEN chan' = Append(chan, Frame("Terminated", 0)) /\ guard' = "done"
       ELSE guard' = "send" /\ UNCHANGED chan

\* after a step of kill_pstree: sleep one SLEEP_STEP more, or the call has
\* returned and Terminated is sent
GuardAfterKill ==
    IF kpc' = "poll"
    THEN guard' = "poll" /\ gtimer' = 1 /\ UNCHANGED chan
    ELSE /\ gtimer' = 0
         /\ IF HasRoom
            THEN chan' = Append(chan, Frame("Terminated", 0)) /\ guard' = "done"
            ELSE guard' = "send" /\ UNCHANGED chan

\* sleep(timeout) is over: kill_pstree(pid, opts.tki, true) starts
GuardFire ==
    /\ ctl # "ret" /\ guard = "sleep" /\ gtimer = 0
    /\ KpStart
    /\ tree0' = get_child_pids_recursive(Root, refresh_processes, {Root})
    /\ GuardAfterKill
    /\ UNCHANGED << alive, parent, stubborn, tki, kill_parent, timeout, faults,
                    childVars, got, rd, runner, rframe, rtimer, stdinW, ctl,
                    rcode, rout, rerr, rstatus, terminals, clock, pipeVars, extVars >>

\* one sleep(SLEEP_STEP) of kill_pstree's loop is over
GuardPoll ==
    /\ ctl # "ret" /\ guard = "poll" /\ gtimer = 0
    /\ KpPoll
    /\ GuardAfterKill
    /\ UNCHANGED << alive, parent, stubborn, tki, kill_parent, tree0, timeout,
                    faults, childVars, got, rd, runner, rframe, rtimer, stdinW,
                    ctl, rcode, rout, rerr, rstatus, terminals, clock, pipeVars, extVars >>

GuardSend ==
    /\ ctl # "ret" /\ guard = "send" /\ HasRoom
    /\ chan' = Append(chan, Frame("Terminated", 0))
    /\ guard' = "done"
    /\ UNCHANGED << procVars, kpVars, timeout, faults, childVars, got, rd,
                    runner, rframe, rtimer, gtimer, stdinW, ctl, rcode, rout,
                    rerr, rstatus, terminals, clock, pipeVars, extVars >>

\* ---- stdin writer, lines 295-304 ----

\* a mutant: a failed write is reported on the channel, as a failed read is
stdin_end_reports(c) == IF Len(c) < ChanCap THEN Append(c, Frame("Error", 0)) ELSE c

\* lines 298-302: a failed write_all or flush is logged with error!() and
\* nothing is sent: the channel after the writer has ended
stdin_end(c) == c

\* write_all and flush have ended, with Ok or with an error that is only
\* logged; the task ends and drops the writer
StdinEnd ==
    /\ ctl # "ret" /\ stdinW = "run"
    /\ \E ok \in BOOLEAN : stdinW' = IF ok THEN "done" ELSE "failed"
    /\ chan' = stdin_end(chan)
    /\ UNCHANGED << procVars, kpVars, timeout, faults, childVars, got, rd,
                    runner, rframe, rtimer, guard, gtimer, ctl, rcode, rout,
                    rerr, rstatus, terminals, clock, pipeVars, extVars >>

\* ---- control loop, lines 327-378 ----

\* a mutant: the loop after Finished keeps no line
drain_push_nothing(lines, f, tag) == lines

\* a mutant: a line is put in front of the lines kept so far
drain_push_front(lines, f, tag) ==
    IF f.t = tag THEN << f.v >> \o lines ELSE lines

\* lines 338-339 (and 373-374): result.out.push(v) / result.err.push(v)
drain_push(lines, f, tag) == IF f.t = tag THEN Append(lines, f.v) ELSE lines

\* runner.abort() drops the Child the task owns; kill_on_drop(true) then
\* sends SIGKILL to the child (line 234), to the child only
RunnerAbort ==
    /\ runner' = Abort(runner)
    /\ rframe' = None
    /\ sent' = IF runner \in {"wait", "sleep", "send"}
               THEN deliver(sent, {Root}, SIGKILL) ELSE sent

\* lines 330-334: Finished(code)
CtlFinished ==
    /\ ctl = "recv" /\ chan # << >> /\ Head(chan).t = "Finished"
    /\ chan' = Tail(chan)
    /\ guard' = Abort(guard)
    /\ rcode' = Some(Head(chan).v)
    /\ ctl' = "drain"
    /\ terminals' = terminals + 1
    /\ UNCHANGED << procVars, kpVars, timeout, faults, childVars, got, rd,
                    runner, rframe, rtimer, gtimer, stdinW, rout, rerr,
                    rstatus, clock, pipeVars, extVars >>

\* lines 345-353: Terminated
CtlTerminated ==
    /\ ctl = "recv" /\ chan # << >> /\ Head(chan).t = "Terminated"
    /\ chan' = Tail(chan)
    /\ RunnerAbort
    /\ stdinW' = Abort(stdinW)
    /\ rd' = [s \in Streams |-> Abort(rd[s])]
    /\ ctl' = "ret" /\ rstatus' = "Ok"
    /\ terminals' = terminals + 1
    /\ UNCHANGED << alive, parent, stubborn, kpVars, timeout, faults, childVars,
                    got, rtimer, guard, gtimer, rcode, rout, rerr, clock, pipeVars, extVars >>

\* lines 354-372: Error(e). The async block of lines 365-370 is built and
\* dropped without being polled, so kill_pstree does not run here.
CtlError ==
    /\ ctl = "recv" /\ chan # << >> /\ Head(chan).t = "Error"
    /\ chan' = Tail(chan)
    /\ RunnerAbort
    /\ guard' = Abort(guard)
    /\ stdinW' = Abort(stdinW)
    /\ rd' = [s \in Streams |-> Abort(rd[s])]
    /\ ctl' = "ret" /\ rstatus' = "Err"
    /\ terminals' = terminals + 1
    /\ UNCHANGED << alive, parent, stubborn, kpVars, timeout, faults, childVars,
                    got, rtimer, gtimer, rcode, rout, rerr, clock, pipeVars, extVars >>

\* lines 373-374: a line before the terminal event
CtlLine ==
    /\ ctl = "recv" /\ chan # << >> /\ Head(chan).t \in {"Stdout", "Stderr"}
    /\ chan' = Tail(chan)
    /\ rout' = drain_push(rout, Head(chan), "Stdout")
    /\ rerr' = drain_push(rerr, Head(chan), "Stderr")
    /\ UNCHANGED << procVars, kpVars, timeout, faults, childVars, taskVars, ctl,
                    rcode, rstatus, terminals, clock, pipeVars, extVars >>

\* lines 336-342: a frame after Finished; anything but a line is ignored
CtlDrain ==
    /\ ctl = "drain" /\ chan # << >>
    /\ chan' = Tail(chan)
    /\ rout' = drain_push(rout, Head(chan), "Stdout")
    /\ rerr' = drain_push(rerr, Head(chan), "Stderr")
    /\ UNCHANGED << procVars, kpVars, timeout, faults, childVars, taskVars, ctl,
                    rcode, rstatus, terminals, clock, pipeVars, extVars >>

\* rx.recv() returns Err: the channel is empty and closed; both loops end
\* with Ok(result) (lines 343 and 377)
CtlClosed ==
    /\ ctl \in {"recv", "drain"} /\ chan = << >> /\ AllSendersDropped
    /\ ctl' = "ret" /\ rstatus' = "Ok"
    /\ UNCHANGED << procVars, kpVars, timeout, faults, childVars, taskVars, chan,
                    rcode, rout, rerr, terminals, clock, pipeVars, extVars >>

\* ---- the child, its descendant and the clock ----

ChildWrite(s) ==
    /\ ctl # "ret" /\ Root \in alive /\ wrote["out"] + wrote["err"] < MaxLines
    /\ wrote' = [wrote EXCEPT ![s] = @ + 1]
    /\ UNCHANGED << procVars, kpVars, timeout, faults, exited, ccode, early,
                    taskVars, ctlVars, clock, pipeVars, extVars >>

\* the child exits by itself with code c
ChildExit(c) ==
    /\ ctl # "ret" /\ Root \in alive /\ Root \notin stubborn
    /\ ProcExit(Root)
    /\ exited' = "code" /\ ccode' = c /\ early' = (guard = "sleep" /\ gtimer > 0)
    /\ UNCHANGED << kpVars, timeout, faults, wrote, taskVars, ctlVars, clock, pipeVars, extVars >>

\* the child dies from a signal it was sent
ChildKilled ==
    /\ ctl # "ret" /\ Root \in alive
    /\ SIGKILL \in sent[Root] \/ (SIGTERM \in sent[Root] /\ Root \notin stubborn)
    /\ ProcExit(Root)
    /\ exited' = "signal" /\ early' = (guard = "sleep" /\ gtimer > 0)
    /\ UNCHANGED << kpVars, timeout, faults, ccode, wrote, taskVars, ctlVars,
                    clock, pipeVars, extVars >>

DescExit ==
    /\ ctl # "ret"
    /\ \E p \in Pids \ {Root} : ProcExit(p)
    /\ UNCHANGED << kpVars, cmdVars, pipeVars, extVars >>

\* a task can take a step without waiting for time or for the environment
TaskReady ==
    \/ \E s \in Streams :
          \/ rd[s] = "read" /\ (got[s] < wrote[s] \/ alive = {})
          \/ rd[s] \in {"send", "senderr"} /\ HasRoom
    \/ runner = "wait" /\ exited # "no"
    \/ runner = "sleep" /\ rtimer = 0
    \/ runner = "send" /\ HasRoom
    \/ guard \in {"sleep", "poll"} /\ gtimer = 0
    \/ guard = "send" /\ HasRoom
    \/ chan # << >>
    \/ AllSendersDropped

\* one SLEEP_STEP passes; tasks that are ready run before time moves on
Tick ==
    /\ ctl # "ret" /\ ~TaskReady
    /\ \/ guard \in {"sleep", "poll"} /\ gtimer > 0
       \/ runner = "sleep" /\ rtimer > 0
    /\ gtimer' = IF guard \in {"sleep", "poll"} /\ gtimer > 0
                 THEN gtimer - 1 ELSE gtimer
    /\ rtimer' = IF runner = "sleep" /\ rtimer > 0 THEN rtimer - 1 ELSE rtimer
    /\ clock' = clock + 1
    /\ UNCHANGED << procVars, kpVars, timeout, faults, childVars, got, rd,
                    runner, rframe, guard, stdinW, ctlVars, pipeVars, extVars >>

\* command has spawned the child (pid Root), which may have one descendant
\* (pid 2) that inherited the pipes, and has spawned its tasks
InitCmd ==
    /\ alive \in { {Root}, {Root, 2} }
    /\ parent = [p \in Pids |-> IF p = 2 THEN Root ELSE 0]
    /\ sent = [p \in Pids |-> {}]
    /\ stubborn \in SUBSET alive
    /\ kpc = "call" /\ pids = {} /\ elapsed = 0
    /\ tki \in {None} \cup { Some(g) : g \in 0 .. MaxGrace }
    /\ kill_parent = TRUE
    /\ tree0 = {} /\ pass2 = None /\ fresh2 = None
    /\ timeout \in 1 .. MaxTimeout
    /\ faults = "no"
    /\ exited = "no" /\ ccode = 0 /\ early = FALSE
    /\ wrote = [s \in Streams |-> 0]
    /\ got = [s \in Streams |-> 0]
    /\ rd = [s \in Streams |-> "read"]
    /\ runner = "wait" /\ rframe = None /\ rtimer = 0
    /\ guard = "sleep" /\ gtimer = timeout
    /\ stdinW = "none"
    /\ chan = << >>
    /\ ctl = "recv" /\ rcode = None /\ rout = << >> /\ rerr = << >>
    /\ rstatus = "" /\ terminals = 0
    /\ clock = 0
    /\ PipeIdle
    /\ ExtIdle

Readers == \E s \in Streams : ReaderRead(s) \/ ReaderSend(s) \/ ReaderEof(s)
Runner == RunnerWake \/ RunnerSlept \/ RunnerSend
Guard == GuardFire \/ GuardPoll \/ GuardSend
Control == CtlFinished \/ CtlTerminated \/ CtlLine \/ CtlDrain \/ CtlClosed
Tasks == Readers \/ Runner \/ Guard \/ Control
Environment == (\E s \in Streams : ChildWrite(s))
               \/ (\E c \in 0 .. MaxCode : ChildExit(c))
               \/ ChildKilled \/ DescExit
\* a read of a pipe or the wait fails (at most once in an execution)
Faults == (\E s \in Streams : ReaderFail(s)) \/ RunnerWaitErr

\* command without input data, no read and no wait fails
NextCmd == Tasks \/ Tick \/ Environment

SpecCmd == InitCmd /\ [][NextCmd]_vars

\* the tasks are scheduled and time passes; the environment owes nothing
FairSpecCmd == SpecCmd /\ WF_vars(Tasks) /\ WF_vars(Tick)

\* command with input data (Options::input), reads and the wait may fail
InitCmdIO ==
    /\ alive \in { {Root}, {Root, 2} }
    /\ parent = [p \in Pids |-> IF p = 2 THEN Root ELSE 0]
    /\ sent = [p \in Pids |-> {}]
    /\ stubborn \in SUBSET alive
    /\ kpc = "call" /\ pids = {} /\ elapsed = 0
    /\ tki \in {None} \cup { Some(g) : g \in 0 .. MaxGrace }
    /\ kill_parent = TRUE
    /\ tree0 = {} /\ pass2 = None /\ fresh2 = None
    /\ timeout \in 1 .. MaxTimeout
    /\ faults = "no"
    /\ exited = "no" /\ ccode = 0 /\ early = FALSE
    /\ wrote = [s \in Streams |-> 0]
    /\ got = [s \in Streams |-> 0]
    /\ rd = [s \in Streams |-> "read"]
    /\ runner = "wait" /\ rframe = None /\ rtimer = 0
    /\ guard = "sleep" /\ gtimer = timeout
    /\ stdinW = "run"
    /\ chan = << >>
    /\ ctl = "recv" /\ rcode = None /\ rout = << >> /\ rerr = << >>
    /\ rstatus = "" /\ terminals = 0
    /\ clock = 0
    /\ PipeIdle
    /\ ExtIdle

NextCmdIO == NextCmd \/ Faults \/ CtlError \/ StdinEnd

SpecCmdIO == InitCmdIO /\ [][NextCmdIO]_vars

\* command with input data, no read and no wait fails
NextCmdIn == NextCmd \/ StdinEnd

SpecCmdIn == InitCmdIO /\ [][NextCmdIn]_vars

(* ---- command with input data for a child that copies stdin to stdout ---- *)

\* lines the stdin pipe holds before a write suspends
PipeCap == 1

\* what the stdin writer and the copying child leave alone
notEcho == << kpVars, timeout, faults, got, rd, runner, rframe, rtimer, guard,
              gtimer, ctlVars, clock, pipeVars, foreign, lockVars, libVars >>

\* a mutant: write_all returns with the last line unwritten
write_all_done_short(left) == left <= 1

\* line 298: write_all(&input_data) returns when nothing is left to write
write_all_done(left) == left = 0

\* lines 298-300: write_all and flush move the next line into the pipe
EchoWrite ==
    /\ ctl # "ret" /\ stdinW = "run"
    /\ ~write_all_done(inleft) /\ inpipe < PipeCap
    /\ inleft' = inleft - 1
    /\ inpipe' = inpipe + 1
    /\ UNCHANGED << notEcho, procVars, childVars, stdinW, input_data >>

\* lines 297-303: the task ends; `writer`, moved into it, is dropped and the
\* child's stdin is closed
EchoClose ==
    /\ ctl # "ret" /\ stdinW = "run" /\ write_all_done(inleft)
    /\ stdinW' = "done"
    /\ UNCHANGED << notEcho, procVars, childVars, inVars >>

\* the child reads a line from its stdin and writes it to its stdout
EchoCopy ==
    /\ ctl # "ret" /\ Root \in alive /\ inpipe > 0
    /\ inpipe' = inpipe - 1
    /\ wrote' = [wrote EXCEPT !["out"] = @ + 1]
    /\ UNCHANGED << notEcho, procVars, exited, ccode, early, stdinW,
                    input_data, inleft >>

\* the child reads end-of-input (the pipe is empty and no writer holds it)
\* and exits with code 0
EchoExit ==
    /\ ctl # "ret" /\ Root \in alive /\ inpipe = 0 /\ stdinW # "run"
    /\ alive' = alive \ {Root}
    /\ exited' = "code" /\ ccode' = 0
    /\ early' = (guard = "sleep" /\ gtimer > 0)
    /\ UNCHANGED << notEcho, parent, sent, stubborn, wrote, stdinW, inVars >>

\* command has spawned the child and its tasks; Options::input(data)
InitEcho ==
    /\ alive = {Root}
    /\ parent = [p \in Pids |-> 0]
    /\ sent = [p \in Pids |-> {}]
    /\ stubborn \in SUBSET alive
    /\ kpc = "call" /\ pids = {} /\ elapsed = 0
    /\ tki \in {None} \cup { Some(g) : g \in 0 .. MaxGrace }
    /\ kill_parent = TRUE
    /\ tree0 = {} /\ pass2 = None /\ fresh2 = None
    /\ timeout \in 1 .. MaxTimeout
    /\ faults = "no"
    /\ exited = "no" /\ ccode = 0 /\ early = FALSE
    /\ wrote = [s \in Streams |-> 0]
    /\ got = [s \in Streams |-> 0]
    /\ rd = [s \in Streams |-> "read"]
    /\ runner = "wait" /\ rframe = None /\ rtimer = 0
    /\ guard = "sleep" /\ gtimer = timeout
    /\ stdinW = "run"
    /\ chan = << >>
    /\ ctl = "recv" /\ rcode = None /\ rout = << >> /\ rerr = << >>
    /\ rstatus = "" /\ terminals = 0
    /\ clock = 0
    /\ PipeIdle
    /\ input_data \in 0 .. MaxLines
    /\ inleft = input_data /\ inpipe = 0
    /\ NoForeign /\ LockIdle /\ LibIdle

NextEcho ==
    \/ Tasks \/ Tick
    \/ EchoWrite \/ EchoClose \/ EchoCopy \/ EchoExit
    \/ ChildKilled

SpecEcho == InitEcho /\ [][NextEcho]_vars

(* ----------------------- kill_pstree, standalone ----------------------- *)


\* no command is running
CmdIdle ==
    /\ timeout = 0 /\ faults = "no"
    /\ exited = "no" /\ ccode = 0 /\ early = FALSE
    /\ wrote = [s \in Streams |-> 0]
    /\ got = [s \in Streams |-> 0]
    /\ rd = [s \in Streams |-> "done"]
    /\ runner = "done" /\ rframe = None /\ rtimer = 0
    /\ guard = "done" /\ gtimer = 0
    /\ stdinW = "none"
    /\ chan = << >>
    /\ ctl = "ret" /\ rcode = None /\ rout = << >> /\ rerr = << >>
    /\ rstatus = "" /\ terminals = 0
    /\ clock = 0

\* process tables in which Root is alive and every other pid is a process
\* with a smaller parent pid (a forest, Root's tree among it)
Forests == { f \in [Pids -> 0 .. NPids] :
               /\ f[Root] = 0
               /\ \A p \in Pids \ {Root} : f[p] < p }

InitKill ==
    /\ alive = Pids
    /\ parent \in Forests
    /\ sent = [p \in Pids |-> {}]
    /\ stubborn \in SUBSET Pids
    /\ kpc = "call"
    /\ pids = {}
    /\ elapsed = 0
    /\ tki \in {None} \cup { Some(g) : g \in 0 .. MaxGrace }
    /\ kill_parent \in BOOLEAN
    /\ tree0 = {}
    /\ pass2 = None
    /\ fresh2 = None
    /\ CmdIdle
    /\ PipeIdle
    /\ ExtIdle

KillStart ==
    /\ kpc = "call"
    /\ KpStart
    /\ tree0' = get_child_pids_recursive(Root, refresh_processes, {Root})
    /\ UNCHANGED << alive, parent, stubborn, tki, kill_parent, cmdVars, pipeVars, extVars >>

KillPoll ==
    /\ kpc = "poll"
    /\ KpPoll
    /\ UNCHANGED << alive, parent, stubborn, tki, kill_parent, tree0, cmdVars, pipeVars, extVars >>

KillEnv ==
    /\ kpc \in {"call", "poll"}
    /\ \E p \in Pids : ProcExit(p)
    /\ UNCHANGED << kpVars, cmdVars, pipeVars, extVars >>

NextKill == KillStart \/ KillPoll \/ KillEnv

SpecKill == InitKill /\ [][NextKill]_vars

(* ---- the guard's kill_pstree while other executions spawn processes ---- *)

\* another execution of command spawns its child while the guard of this one
\* is in its grace period; the kernel gives the child a pid that is free
OtherSpawn(p) ==
    /\ kpc = "poll" /\ p \notin alive
    /\ alive' = alive \cup {p}
    /\ parent' = [parent EXCEPT ![p] = 0]
    /\ sent' = [sent EXCEPT ![p] = {}]
    /\ stubborn' = stubborn \ {p}
    /\ foreign' = foreign \cup {p}
    /\ UNCHANGED << kpVars, cmdVars, pipeVars, inVars, lockVars, libVars >>

\* the guard of command: kill_pstree(pid, opts.tki, true), line 289
InitShared == InitKill /\ kill_parent

NextShared == NextKill \/ \E p \in Pids : OtherSpawn(p)

SpecShared == InitShared /\ [][NextShared]_vars

(* ---------------- kill_pstree with a grace period: the wait ------------- *)

\* longest grace period of these calls, in ticks: longer than one SLEEP_STEP,
\* so that the root can be gone before the grace period is over
MaxWait == 2

\* kill_pstree(pid, Some(t), kill_parent)
InitWait ==
    /\ alive = Pids
    /\ parent \in Forests
    /\ sent = [p \in Pids |-> {}]
    /\ stubborn \in SUBSET Pids
    /\ kpc = "call"
    /\ pids = {}
    /\ elapsed = 0
    /\ tki \in { Some(g) : g \in 0 .. MaxWait }
    /\ kill_parent \in BOOLEAN
    /\ tree0 = {}
    /\ pass2 = None
    /\ fresh2 = None
    /\ CmdIdle
    /\ PipeIdle
    /\ ExtIdle

SpecWait == InitWait /\ [][NextKill]_vars

(* -------------------- command_pipe, process.rs:390-503 ----------------- *)

\* line 400: async_channel::bounded(512)
OutputCap == 512
\* line 484: the code reported when the child returned none
NoCode == -99

\* what command_pipe never touches
notPipe == << kpVars, timeout, faults, early, runner, rframe, rtimer, guard,
              gtimer, ctl, rcode, rout, rerr, rstatus, terminals, clock,
              extVars >>

\* lines 453-462 / 471-480: read_line returned a line; send it to the caller
PipeRead(s) ==
    /\ ptask # "idle" /\ rd[s] = "read" /\ got[s] < wrote[s]
    /\ Len(chan) < OutputCap
    /\ got' = [got EXCEPT ![s] = @ + 1]
    /\ chan' = Append(chan, Frame(Tag(s), got[s] + 1))
    /\ UNCHANGED << notPipe, procVars, exited, ccode, wrote, rd, stdinW,
                    pipeVars, extVars >>

\* read_line returned an empty line: end of input, the reader task ends
PipeEof(s) ==
    /\ ptask # "idle" /\ rd[s] = "read" /\ got[s] = wrote[s] /\ alive = {}
    /\ rd' = [rd EXCEPT ![s] = "done"]
    /\ UNCHANGED << notPipe, procVars, exited, ccode, wrote, got, stdinW, chan,
                    pipeVars, extVars >>

\* lines 484-489: child.wait() returns; -99 stands unless the status has a code
PipeWait ==
    /\ ptask = "wait" /\ exited # "no"
    /\ exit_code' = IF exited = "code" THEN ccode ELSE NoCode
    /\ stdinW' = Abort(stdinW)
    /\ ptask' = "select"
    /\ UNCHANGED << notPipe, procVars, exited, ccode, wrote, got, rd, chan,
                    delivered >>

\* lines 493-496: tokio::select! over the two JoinHandles completes when one
\* of the reader tasks has ended
select_ready == \E s \in Streams : rd[s] = "done"

\* lines 493-499: select! completes, Terminated(exit_code) is sent
PipeSelect ==
    /\ ptask = "select" /\ select_ready
    /\ Len(chan) < OutputCap
    /\ chan' = Append(chan, Frame("Terminated", exit_code))
    /\ ptask' = "done"
    /\ UNCHANGED << notPipe, procVars, exited, ccode, wrote, got, rd, stdinW,
                    exit_code, delivered >>

\* the caller receives the next frame
PipeRecv ==
    /\ ptask # "idle" /\ chan # << >>
    /\ delivered' = Append(delivered, Head(chan))
    /\ chan' = Tail(chan)
    /\ UNCHANGED << notPipe, procVars, exited, ccode, wrote, got, rd, stdinW,
                    ptask, exit_code >>

PipeChildWrite(s) ==
    /\ ptask # "idle" /\ Root \in alive /\ wrote["out"] + wrote["err"] < MaxLines
    /\ wrote' = [wrote EXCEPT ![s] = @ + 1]
    /\ UNCHANGED << notPipe, procVars, exited, ccode, got, rd, stdinW, chan,
                    pipeVars, extVars >>

\* the child exits by itself with code c
PipeChildExit(c) ==
    /\ ptask # "idle" /\ Root \in alive
    /\ ProcExit(Root)
    /\ exited' = "code" /\ ccode' = c
    /\ UNCHANGED << notPipe, wrote, got, rd, stdinW, chan, pipeVars, extVars >>

\* the child is killed by a signal sent from outside (kill, kill_pstree)
PipeChildKilled ==
    /\ ptask # "idle" /\ Root \in alive
    /\ alive' = alive \ {Root}
    /\ sent' = deliver(sent, {Root}, SIGKILL)
    /\ exited' = "signal"
    /\ UNCHANGED << notPipe, parent, stubborn, ccode, wrote, got, rd, stdinW,
                    chan, pipeVars, extVars >>

\* command_pipe has spawned the child (pid Root) and its tasks
InitPipe ==
    /\ alive = {Root}
    /\ parent = [p \in Pids |-> 0]
    /\ sent = [p \in Pids |-> {}]
    /\ stubborn = {}
    /\ kpc = "idle" /\ pids = {} /\ elapsed = 0 /\ tki = None
    /\ kill_parent = FALSE /\ tree0 = {} /\ pass2 = None /\ fresh2 = None
    /\ timeout = 0 /\ faults = "no"
    /\ exited = "no" /\ ccode = 0 /\ early = FALSE
    /\ wrote = [s \in Streams |-> 0]
    /\ got = [s \in Streams |-> 0]
    /\ rd = [s \in Streams |-> "read"]
    /\ runner = "done" /\ rframe = None /\ rtimer = 0
    /\ guard = "done" /\ gtimer = 0
    /\ stdinW \in {"none", "run"}
    /\ chan = << >>
    /\ ctl = "ret" /\ rcode = None /\ rout = << >> /\ rerr = << >>
    /\ rstatus = "" /\ terminals = 0
    /\ clock = 0
    /\ ptask = "wait" /\ exit_code = NoCode /\ delivered = << >>
    /\ ExtIdle

NextPipe ==
    \/ \E s \in Streams : PipeRead(s) \/ PipeEof(s) \/ PipeChildWrite(s)
    \/ PipeWait \/ PipeSelect \/ PipeRecv
    \/ \E c \in 0 .. MaxCode : PipeChildExit(c)
    \/ PipeChildKilled

SpecPipe == InitPipe /\ [][NextPipe]_vars

(* ------------------ sync.rs: SharedLockFactory, one lock_id ------------ *)

\* no process is supervised
KillIdle ==
    /\ alive = {} /\ parent = [p \in Pids |-> 0]
    /\ sent = [p \in Pids |-> {}] /\ stubborn = {}
    /\ kpc = "idle" /\ pids = {} /\ elapsed = 0 /\ tki = None
    /\ kill_parent = FALSE /\ tree0 = {} /\ pass2 = None /\ fresh2 = None

\* what the lock factory never touches
notLock == << procVars, kpVars, cmdVars, pipeVars, inVars, foreign, libVars >>

\* the token Uuid::new_v4() gives acquisition n: fresh, so n itself
Token(n) == n
\* a Uuid that acquire never returned
BadToken == 0

\* some Sender of the unlock channel of n exists: the Lock is the local of a
\* running acquire or the value stored in `locks`
SenderAlive(n) == apc[n] \in {"outer", "insert"} \/ entry = Some(n)

\* the states of a holder task in which it owns the MutexGuard `_g`
Holding == {"locked", "held", "woken", "cleared"}

\* the acquisition that holds the lock and whose acquire has returned its
\* token; 0 if there is none
CurHolder ==
    IF \E n \in Acqs : hpc[n] = "held" /\ apc[n] = "done"
    THEN CHOOSE n \in Acqs : hpc[n] = "held" /\ apc[n] = "done"
    ELSE 0

\* sync.rs:92-93 and 36-41: acquire takes the Mutex around the SharedLock and
\* SharedLock::acquire spawns the holder task
AcquireCall(n) ==
    /\ apc[n] = "idle"
    /\ \A m \in Acqs : m < n => apc[m] # "idle"
    /\ \A m \in Acqs : apc[m] # "outer"
    /\ apc' = [apc EXCEPT ![n] = "outer"]
    /\ hpc' = [hpc EXCEPT ![n] = "wait"]
    /\ \E e \in 1 .. MaxExpire : expires' = [expires EXCEPT ![n] = e]
    /\ UNCHANGED << notLock, mbox, flag, entry, rpc, rel, trues, cause, age,
                    shared_locks, sres >>

\* sync.rs:91 and 100-101: acquire on a lock_id that is not in shared_locks
AcquireUndefined(id) ==
    /\ id \notin shared_locks
    /\ sres' = Some([op |-> "acquire", id |-> id, res |-> "ErrLockNotDefined"])
    /\ UNCHANGED << notLock, apc, hpc, mbox, flag, entry, rpc, rel, trues,
                    cause, expires, age, shared_locks >>

\* sync.rs:122-128: status(lock_id)
Status(id) ==
    /\ sres' = Some([op |-> "status", id |-> id,
                     res |-> IF id \in shared_locks
                             THEN (IF flag THEN "true" ELSE "false")
                             ELSE "ErrLockNotDefined"])
    /\ UNCHANGED << notLock, apc, hpc, mbox, flag, entry, rpc, rel, trues,
                    cause, expires, age, shared_locks >>

\* sync.rs:43: the holder task gets the Mutex
HolderLock(n) ==
    /\ hpc[n] = "wait"
    /\ \A m \in Acqs : hpc[m] \notin Holding
    /\ hpc' = [hpc EXCEPT ![n] = "locked"]
    /\ UNCHANGED << notLock, apc, mbox, flag, entry, rpc, rel, trues, cause,
                    expires, age, shared_locks, sres >>

\* sync.rs:45-46: the holder task sets the flag and triggers lock_trigger
HolderSet(n) ==
    /\ hpc[n] = "locked"
    /\ hpc' = [hpc EXCEPT ![n] = "held"]
    /\ flag' = TRUE
    /\ UNCHANGED << notLock, apc, mbox, entry, rpc, rel, trues, cause,
                    expires, age, shared_locks, sres >>

\* sync.rs:52-53 and 93: lock_listener fires, SharedLock::acquire returns the
\* Lock and the guard of the outer Mutex is dropped
AcquireReturn(n) ==
    /\ apc[n] = "outer" /\ hpc[n] \in {"held", "woken", "cleared", "ended"}
    /\ apc' = [apc EXCEPT ![n] = "insert"]
    /\ UNCHANGED << notLock, hpc, mbox, flag, entry, rpc, rel, trues, cause,
                    expires, age, shared_locks, sres >>

\* sync.rs:94-99: the token is made, (token, lock) is stored under lock_id
\* (replacing and dropping what was there) and the token is returned
AcquireInsert(n) ==
    /\ apc[n] = "insert" /\ rpc = None
    /\ entry' = Some(n)
    /\ apc' = [apc EXCEPT ![n] = "done"]
    /\ UNCHANGED << notLock, hpc, mbox, flag, rpc, rel, trues, cause,
                    expires, age, shared_locks, sres >>

\* the wait of holder n is over for reason c
Woken(n, c) ==
    /\ hpc' = [hpc EXCEPT ![n] = "woken"]
    /\ cause' = [cause EXCEPT ![n] = c]

\* sync.rs:48: unlock_listener.recv() returns the message of a release
HolderRecv(n) ==
    /\ hpc[n] = "held" /\ mbox[n] > 0
    /\ mbox' = [mbox EXCEPT ![n] = @ - 1]
    /\ Woken(n, "release")
    /\ UNCHANGED << notLock, apc, flag, entry, rpc, rel, trues, expires, age,
                    shared_locks, sres >>

\* a mutant: the wait for the release has no timeout
timed_out_never(a, e) == FALSE

\* sync.rs:48: tokio::time::timeout(expires, ..) is over when the wait has
\* lasted a ticks and expires is e
timed_out(a, e) == a >= e

\* sync.rs:48: the timeout `expires` is over
HolderExpire(n) ==
    /\ hpc[n] = "held" /\ timed_out(age[n], expires[n])
    /\ Woken(n, "expire")
    /\ UNCHANGED << notLock, apc, mbox, flag, entry, rpc, rel, trues, expires,
                    age, shared_locks, sres >>

\* sync.rs:48: recv() returns None, every Sender has been dropped
HolderDropped(n) ==
    /\ hpc[n] = "held" /\ mbox[n] = 0 /\ ~SenderAlive(n)
    /\ Woken(n, "drop")
    /\ UNCHANGED << notLock, apc, mbox, flag, entry, rpc, rel, trues, expires,
                    age, shared_locks, sres >>

\* a mutant: the flag is left as it is
flag_left(f) == f

\* sync.rs:49: flag.store(false)
flag_cleared(f) == FALSE

\* sync.rs:49: the holder task clears the flag
HolderClear(n) ==
    /\ hpc[n] = "woken"
    /\ hpc' = [hpc EXCEPT ![n] = "cleared"]
    /\ flag' = flag_cleared(flag)
    /\ UNCHANGED << notLock, apc, mbox, entry, rpc, rel, trues, cause,
                    expires, age, shared_locks, sres >>

\* sync.rs:50: the task ends: the MutexGuard, the Receiver and the timeout
\* are dropped
HolderEnd(n) ==
    /\ hpc[n] = "cleared"
    /\ hpc' = [hpc EXCEPT ![n] = "ended"]
    /\ expires' = [expires EXCEPT ![n] = 0]
    /\ age' = [age EXCEPT ![n] = 0]
    /\ UNCHANGED << notLock, apc, mbox, flag, entry, rpc, rel, trues, cause,
                    shared_locks, sres >>

\* sync.rs:40: mpsc::channel(1)
UnlockCap == 1

\* Option<&Uuid>
Tokens == {None} \cup { Some(Token(n)) : n \in Acqs } \cup { Some(BadToken) }

\* the tokens a caller can pass: None, a token acquire has returned, another
TokenArgs == {None} \cup { Some(Token(n)) : n \in { m \in Acqs : apc[m] = "done" } }
                    \cup { Some(BadToken) }

\* a call of SharedLockFactory::release has returned res
Returned(tok, res, n) ==
    rel' = Some([tok |-> tok, res |-> res, cur |-> CurHolder, to |-> n])

\* sync.rs:20-22: Lock::release on the Lock of acquisition n:
\* unlock_trigger.send(()).await.is_ok(); the send fails when the Receiver
\* has been dropped, completes when the channel has room, suspends otherwise
LockRelease(n, tok) ==
    IF hpc[n] = "ended"
    THEN /\ Returned(tok, "false", n)
         /\ rpc' = None
         /\ UNCHANGED << mbox, trues >>
    ELSE IF mbox[n] < UnlockCap
    THEN /\ mbox' = [mbox EXCEPT ![n] = @ + 1]
         /\ trues' = [trues EXCEPT ![n] = @ + 1]
         /\ Returned(tok, "true", n)
         /\ rpc' = None
    ELSE /\ rpc' = Some(<< n, tok >>)
         /\ UNCHANGED << mbox, trues, rel >>

\* sync.rs:104-118: SharedLockFactory::release(lock_id, token); the guard of
\* `locks` is held until the call returns
Release(tok) ==
    /\ rpc = None /\ tok \in TokenArgs
    /\ \E n \in Acqs : apc[n] # "idle"
    /\ IF entry = None
       THEN Returned(tok, "ErrLockNotDefined", 0) /\ UNCHANGED << mbox, trues, rpc >>
       ELSE IF tok # None /\ tok[1] # Token(entry[1])
       THEN Returned(tok, "ErrInvalidLockToken", 0) /\ UNCHANGED << mbox, trues, rpc >>
       ELSE LockRelease(entry[1], tok)
    /\ UNCHANGED << notLock, apc, hpc, flag, entry, cause, expires, age,
                    shared_locks, sres >>

\* the suspended send of a release goes on: it completes or fails
ReleaseResume ==
    /\ rpc # None
    /\ hpc[rpc[1][1]] = "ended" \/ mbox[rpc[1][1]] < UnlockCap
    /\ LockRelease(rpc[1][1], rpc[1][2])
    /\ UNCHANGED << notLock, apc, hpc, flag, entry, cause, expires, age,
                    shared_locks, sres >>

\* a holder task can take a step without waiting for time or for a caller
HolderReady ==
    \E n \in Acqs :
        \/ hpc[n] = "wait" /\ \A m \in Acqs : hpc[m] \notin Holding
        \/ hpc[n] \in {"locked", "woken", "cleared"}
        \/ /\ hpc[n] = "held"
           /\ \/ mbox[n] > 0
              \/ timed_out(age[n], expires[n])
              \/ ~SenderAlive(n)

\* one tick passes while a holder waits in its timeout. The holder tasks are
\* tasks of the runtime and run before time moves on; acquire and release run
\* in the futures of their callers, which go on when the callers poll them.
LockTick ==
    /\ \E n \in Acqs : hpc[n] = "held" /\ age[n] <= MaxExpire
    /\ ~HolderReady
    /\ age' = [n \in Acqs |-> IF hpc[n] \in Holding THEN age[n] + 1 ELSE age[n]]
    /\ UNCHANGED << notLock, apc, hpc, mbox, flag, entry, rpc, rel, trues,
                    cause, expires, shared_locks, sres >>

\* SharedLockFactory::new() and create(lock_id): nothing is held
InitLock == KillIdle /\ CmdIdle /\ PipeIdle /\ ExtIdle

HolderTask(n) ==
    \/ HolderLock(n) \/ HolderSet(n)
    \/ HolderRecv(n) \/ HolderExpire(n) \/ HolderDropped(n)
    \/ HolderClear(n) \/ HolderEnd(n)

NextLock ==
    \/ \E n \in Acqs :
          \/ AcquireCall(n) \/ AcquireReturn(n) \/ AcquireInsert(n)
          \/ HolderTask(n)
    \/ \E tok \in Tokens : Release(tok)
    \/ ReleaseResume
    \/ LockTick

SpecLock == InitLock /\ [][NextLock]_vars

\* the same with calls of status, and of acquire on a lock_id not defined
NextStatus ==
    \/ NextLock
    \/ \E id \in LockIds : AcquireUndefined(id) \/ Status(id)

SpecStatus == InitLock /\ [][NextStatus]_vars

\* the holder tasks run, time passes, and a caller that has called acquire
\* goes on polling it; nobody owes a call of acquire, release or status
FairSpecLock ==
    /\ SpecLock
    /\ \A n \in Acqs : WF_vars(HolderTask(n))
    /\ \A n \in Acqs : WF_vars(AcquireReturn(n)) /\ WF_vars(AcquireInsert(n))
    /\ WF_vars(ReleaseResume)
    /\ WF_vars(LockTick)

(* ------- get_child_pids_recursive on any snapshot, call by call -------- *)

\* what the walk never touches
notWalk == << procVars, kpVars, cmdVars, pipeVars, inVars, foreign, lockVars,
             facVars, sendVars, workVars >>

\* the frames the stack of the thread has room for: more than any chain of
\* distinct pids needs
MaxStack == NPids + 2

\* every snapshot of the process table: a partial map pid -> parent pid, the
\* parent being any other pid, in the snapshot or not
Snapshots == { f \in UNION { [S -> 0 .. NPids] : S \in SUBSET Pids } :
                 \A i \in DOMAIN f : f[i] # i }

\* a call of get_child_pids_recursive(pid, sys, to): the entries of
\* sys.processes() with parent == pid that the for loop has still to take
CallFrame(pid, sys) == [pid |-> pid, todo |-> {i \in DOMAIN sys : sys[i] = pid}]

\* the frame on top without the entry i, which the loop has taken
Taken(i) ==
    [wstack EXCEPT ![Len(wstack)] = [@ EXCEPT !.todo = @ \ {i}]]

\* process.rs:91-95: the loop takes an entry whose parent is pid, inserts it
\* and calls itself on it
WalkCall ==
    /\ wpc = "run" /\ Len(wstack) < MaxStack
    /\ \E i \in wstack[Len(wstack)].todo :
          /\ wto' = wto \cup {i}
          /\ wstack' = Append(Taken(i), CallFrame(i, wsys))
    /\ UNCHANGED << notWalk, wsys, wpc >>

\* process.rs:95: the call needs a frame and the stack has no room left
WalkOverflow ==
    /\ wpc = "run" /\ Len(wstack) = MaxStack
    /\ wstack[Len(wstack)].todo # {}
    /\ wpc' = "overflow"
    /\ UNCHANGED << notWalk, wsys, wstack, wto >>

\* process.rs:98-99: the loop is over, the call returns
WalkReturn ==
    /\ wpc = "run" /\ wstack[Len(wstack)].todo = {}
    /\ wstack' = SubSeq(wstack, 1, Len(wstack) - 1)
    /\ wpc' = IF Len(wstack) = 1 THEN "ret" ELSE "run"
    /\ UNCHANGED << notWalk, wsys, wto >>

\* get_child_pids_recursive(Root, sys, &mut HashSet::new()) on any snapshot
InitWalk ==
    /\ KillIdle /\ CmdIdle /\ PipeIdle /\ InIdle /\ NoForeign /\ LockIdle
    /\ FacIdle /\ SendIdle /\ WorkIdle
    /\ wsys \in Snapshots
    /\ wstack = << CallFrame(Root, wsys) >>
    /\ wto = {}
    /\ wpc = "run"

NextWalk == WalkCall \/ WalkOverflow \/ WalkReturn

SpecWalk == InitWalk /\ [][NextWalk]_vars

(* ------------------- workers.rs: WorkerFactory ------------------------- *)

\* what the factory never touches
notFac == << procVars, kpVars, cmdVars, pipeVars, inVars, foreign, lockVars,
            walkVars, sendVars, workVars >>

\* the scheduler tasks that are spawned in one execution, at most
MaxSpawn == 3

\* a mutant: the JoinHandle is dropped without abort(): the task is detached
\* and goes on
abort_handle_dropped(tasks, h) == tasks

\* workers.rs:122: fut.abort() on the task of handle h
abort_handle(tasks, h) == [tasks EXCEPT ![h].st = Abort(@)]

\* a call has returned
FacReturned(op, id, res) ==
    fres' = Some([op |-> op, id |-> id, res |-> res,
                  old |-> schedulers[id], was |-> stasks])

\* workers.rs:101-112: the scheduler task is spawned and its handle stored
SpawnScheduler(id, tasks) ==
    /\ stasks' = Append(tasks, [id |-> id, st |-> "run"])
    /\ schedulers' = [schedulers EXCEPT ![id] = Len(tasks) + 1]

\* workers.rs:63-71 and 86-113: create_scheduler(worker_id, ..)
CreateScheduler(id) ==
    /\ Len(stasks) < MaxSpawn
    /\ IF schedulers[id] # 0
       THEN /\ FacReturned("create", id, "ErrDuplicate")
            /\ UNCHANGED << schedulers, stasks >>
       ELSE /\ FacReturned("create", id, "Ok")
            /\ SpawnScheduler(id, stasks)
    /\ UNCHANGED notFac

\* workers.rs:76-84 and 86-113: recreate_scheduler(worker_id, ..)
RecreateScheduler(id) ==
    /\ Len(stasks) < MaxSpawn
    /\ FacReturned("recreate", id, "Ok")
    /\ SpawnScheduler(id, IF schedulers[id] # 0
                          THEN abort_handle(stasks, schedulers[id])
                          ELSE stasks)
    /\ UNCHANGED notFac

\* workers.rs:118-126: destroy_scheduler(worker_id)
DestroyScheduler(id) ==
    /\ IF schedulers[id] # 0
       THEN /\ FacReturned("destroy", id, "Ok")
            /\ schedulers' = [schedulers EXCEPT ![id] = 0]
            /\ stasks' = abort_handle(stasks, schedulers[id])
       ELSE /\ FacReturned("destroy", id, "ErrNotFound")
            /\ UNCHANGED << schedulers, stasks >>
    /\ UNCHANGED notFac

\* WorkerFactory::new()
InitFac ==
    /\ KillIdle /\ CmdIdle /\ PipeIdle /\ InIdle /\ NoForeign /\ LockIdle
    /\ WalkIdle /\ FacIdle /\ SendIdle /\ WorkIdle

NextFac ==
    \E id \in WorkerIds :
        CreateScheduler(id) \/ RecreateScheduler(id) \/ DestroyScheduler(id)

SpecFac == InitFac /\ [][NextFac]_vars

(* ---------------------- mpsc.rs: SafeSender::safe_send ----------------- *)

\* what safe_send never touches
notSend == << procVars, kpVars, cmdVars, pipeVars, inVars, foreign, lockVars,
             walkVars, facVars, workVars >>

\* the capacity of the channel the SafeSender was made for
SendCap == 2
\* longest SafeSender::timeout, in ticks
MaxSendTimeout == 2

\* the channel has a free permit
SendRoom == qlen < SendCap

\* a mutant: the timer fires one tick late
send_timed_out_late(w, t) == w > t

\* mpsc.rs:30: tokio::time::timeout(self.timeout, ..): the delay has elapsed
\* when the call has waited w ticks and the timeout is t
send_timed_out(w, t) == w >= t

\* mpsc.rs:30-34: the first poll of timeout(.., tx.send(data)): the send is
\* polled first; it fails when the Receiver is closed, completes when there
\* is room, and is pending otherwise
SafeSendCall ==
    /\ spc = "idle"
    /\ waited' = 0
    /\ IF ~rxopen
       THEN /\ sret' = Some("ErrInternal") /\ spc' = "done"
            /\ UNCHANGED << qlen, menq >>
       ELSE IF SendRoom
       THEN /\ qlen' = qlen + 1 /\ menq' = menq + 1
            /\ sret' = Some("Ok") /\ spc' = "done"
       ELSE /\ spc' = "wait"
            /\ UNCHANGED << qlen, menq, sret >>
    /\ fullall' = (rxopen /\ ~SendRoom)
    /\ UNCHANGED << notSend, rxopen, stimeout >>

\* mpsc.rs:30-34: the pending send is woken: a permit is free or the
\* Receiver is closed; timeout polls the send before its delay
SendWake ==
    /\ spc = "wait" /\ (SendRoom \/ ~rxopen)
    /\ IF ~rxopen
       THEN sret' = Some("ErrInternal") /\ UNCHANGED << qlen, menq >>
       ELSE /\ qlen' = qlen + 1 /\ menq' = menq + 1
            /\ sret' = Some("Ok")
    /\ spc' = "done"
    /\ UNCHANGED << notSend, rxopen, stimeout, waited, fullall >>

\* mpsc.rs:30-32: the delay has elapsed and the send is still pending: the
\* send future is dropped and Error::timeout() returned
SendTimeout ==
    /\ spc = "wait" /\ send_timed_out(waited, stimeout)
    /\ ~SendRoom /\ rxopen
    /\ sret' = Some("ErrTimeout")
    /\ spc' = "done"
    /\ UNCHANGED << notSend, qlen, rxopen, stimeout, waited, menq, fullall >>

\* one tick passes while the send is pending and the delay has not elapsed
SendTick ==
    /\ spc = "wait" /\ ~send_timed_out(waited, stimeout)
    /\ ~SendRoom /\ rxopen
    /\ waited <= MaxSendTimeout
    /\ waited' = waited + 1
    /\ UNCHANGED << notSend, qlen, rxopen, spc, stimeout, sret, menq, fullall >>

\* the owner of the Receiver takes a message
ChanRecv ==
    /\ rxopen /\ qlen > 0
    /\ qlen' = qlen - 1
    /\ fullall' = (fullall /\ spc # "wait")
    /\ UNCHANGED << notSend, rxopen, spc, stimeout, waited, sret, menq >>

\* the Receiver is closed or dropped
ChanClose ==
    /\ rxopen
    /\ rxopen' = FALSE
    /\ fullall' = (fullall /\ spc # "wait")
    /\ UNCHANGED << notSend, qlen, spc, stimeout, waited, sret, menq >>

\* another Sender of the channel gets a permit and sends
OtherSend ==
    /\ rxopen /\ SendRoom
    /\ qlen' = qlen + 1
    /\ UNCHANGED << notSend, rxopen, spc, stimeout, waited, sret, menq, fullall >>

\* SafeSender::new(tx, timeout) on a channel with some messages in it
InitSend ==
    /\ KillIdle /\ CmdIdle /\ PipeIdle /\ InIdle /\ NoForeign /\ LockIdle
    /\ WalkIdle /\ FacIdle /\ WorkIdle
    /\ qlen \in 0 .. SendCap /\ rxopen = TRUE /\ spc = "idle"
    /\ stimeout \in 0 .. MaxSendTimeout
    /\ waited = 0 /\ sret = None /\ menq = 0 /\ fullall = FALSE

NextSend ==
    \/ SafeSendCall \/ SendWake \/ SendTimeout \/ SendTick
    \/ ChanRecv \/ ChanClose \/ OtherSend

SpecSend == InitSend /\ [][NextSend]_vars

(* ------------- lib.rs: worker!, workers.rs: Scheduler ------------------ *)

\* what the worker and its Scheduler never touch
notWork == << procVars, kpVars, cmdVars, pipeVars, inVars, foreign, lockVars,
             walkVars, facVars, sendVars >>

\* longest Scheduler::interval, in ticks
MaxInterval == 2
\* the calls of notify_waiters that are followed
MaxNotify == 3

\* Notify::notify_waiters seen by the worker in state w: a Notified future
\* that exists is completed; no permit is stored for a later notified()
notify_waiters(w) == IF w = "waiting" THEN "notified" ELSE w

\* a mutant: both loops sleep before they notify
first_sleep_always(inst, iv) == iv

\* workers.rs:24-39: the time between the start of the loop and its first
\* notify_waiters: run sleeps one interval first, run_instant does not
first_sleep(inst, iv) == IF inst THEN 0 ELSE iv

\* lib.rs:8-10: the worker task is polled for the first time: tc.notified()
WorkerPoll ==
    /\ wk = "spawned" /\ interval > 0
    /\ wk' = "waiting"
    /\ UNCHANGED << notWork, instant, interval, schedt, nticks, runs, tlast, wclock >>

\* workers.rs:27-29 and 35-37: sleep_until(t) is over (or run_instant
\* starts): notify_waiters, then t += interval
SchedNotify ==
    /\ schedt = 0 /\ interval > 0 /\ nticks < MaxNotify
    /\ wk' = notify_waiters(wk)
    /\ nticks' = nticks + 1
    /\ tlast' = wclock
    /\ schedt' = interval
    /\ UNCHANGED << notWork, instant, interval, runs, wclock >>

\* lib.rs:10-11: notified() has completed: the target is called
WorkerRun ==
    /\ wk = "notified"
    /\ wk' = "running"
    /\ runs' = runs + 1
    /\ UNCHANGED << notWork, instant, interval, schedt, nticks, tlast, wclock >>

\* lib.rs:11 and 9-10: the target returns, the loop calls tc.notified() again
TargetReturn ==
    /\ wk = "running"
    /\ wk' = "waiting"
    /\ UNCHANGED << notWork, instant, interval, schedt, nticks, runs, tlast, wclock >>

\* one tick passes: the Scheduler sleeps, the worker waits or its target runs
WorkTick ==
    /\ schedt > 0 /\ nticks < MaxNotify
    /\ wk \in {"waiting", "running"}
    /\ schedt' = schedt - 1
    /\ wclock' = wclock + 1
    /\ UNCHANGED << notWork, wk, instant, interval, nticks, runs, tlast >>

\* worker!(target) has spawned the worker task and create_scheduler(id,
\* trigger, interval, instant) the Scheduler task
InitWork ==
    /\ KillIdle /\ CmdIdle /\ PipeIdle /\ InIdle /\ NoForeign /\ LockIdle
    /\ WalkIdle /\ FacIdle /\ SendIdle
    /\ wk = "spawned"
    /\ instant \in BOOLEAN
    /\ interval \in 1 .. MaxInterval
    /\ schedt = first_sleep(instant, interval)
    /\ nticks = 0 /\ runs = 0 /\ tlast = 0 /\ wclock = 0

NextWork == WorkerPoll \/ SchedNotify \/ WorkerRun \/ TargetReturn \/ WorkTick

SpecWork == InitWork /\ [][NextWork]_vars

(* ------------------------ claims on kill_pstree ------------------------ *)

\* C8: when kill_pstree(root, grace, kill_parent = true) has returned, every
\* process of the tree the root had when the call started (the root and its N
\* descendants) has been sent SIGKILL or has left the process table, for grace
\* None and Some, stubborn or not, re-parented or not.
C8_TreeKilled ==
    (kpc = "done" /\ kill_parent) =>
        \A p \in tree0 : p \notin alive \/ SIGKILL \in sent[p]

\* the call has returned after a grace period during which the root died and
\* a descendant of it, re-parented to init, was still alive to get SIGKILL
C8_Witness ==
    /\ kpc = "done" /\ kill_parent /\ tki # None
    /\ Root \notin alive
    /\ \E p \in tree0 \ {Root} :
          p \in alive /\ parent[p] = 0 /\ SIGKILL \in sent[p]

\* C9: with kill_parent = false the root pid receives no signal of any kind
\* from the call.
C9_RootNotSignalled ==
    ~kill_parent => sent[Root] = {}

\* C10: the set of pids that receives the forced signal in the second pass is
\* exactly the set resolved from the process table at that moment (plus the
\* root if included).
C10_SecondPassIsFresh ==
    pass2 # None => pass2 = fresh2

\* C11 as stated: also with grace None the graceful signal is sent to every
\* pid of the set before the forced one, so a pid that was sent SIGKILL was
\* sent SIGTERM before.
C11_GracefulFirst ==
    \A p \in Pids : SIGKILL \in sent[p] => SIGTERM \in sent[p]

\* C11 amended: with grace None kill_pstree makes one pass that sends SIGKILL
\* and nothing else to every live pid of the resolved set, and no second pass;
\* with grace Some a pid is sent SIGKILL only after it was sent SIGTERM.
C11_NoneIsForcedOnly ==
    /\ (kpc = "done" /\ tki = None) =>
          /\ pass2 = None
          /\ \A p \in Pids :
                /\ sent[p] \subseteq {SIGKILL}
                /\ (p \in alive /\ p \in tree0 /\ (p # Root \/ kill_parent))
                      => sent[p] = {SIGKILL}
    /\ tki # None =>
          \A p \in Pids : SIGKILL \in sent[p] => SIGTERM \in sent[p]

\* a call with grace None has returned; the root and a descendant that are
\* still in the table were sent SIGKILL only
C11_Witness ==
    /\ kpc = "done" /\ tki = None /\ kill_parent
    /\ Root \in alive /\ sent[Root] = {SIGKILL}
    /\ \E p \in tree0 \ {Root} : p \in alive /\ sent[p] = {SIGKILL}

\* C23: with grace Some(G) the wait of kill_pstree goes on, one SLEEP_STEP at
\* a time, exactly as long as the probe of the root succeeds and less than G
\* has elapsed; the poll that finds the root gone or G elapsed ends it and
\* makes the forced pass at once; the call never waits longer than G, and no
\* SIGKILL is sent while it waits.
C23_WaitThenForce ==
    /\ [] ( (kpc = "poll") =>
               (/\ tki # None /\ elapsed < tki[1] /\ pass2 = None
                /\ \A p \in Pids : SIGKILL \notin sent[p]) )
    /\ [] ( (kpc = "done" /\ tki # None /\ (pids # {} \/ kill_parent)) =>
               (/\ pass2 # None
                /\ elapsed <= tki[1]
                /\ elapsed = 0 \/ elapsed = tki[1] \/ Root \notin alive) )
    /\ [][(kpc = "poll" /\ elapsed' = elapsed + 1) =>
            (/\ (kpc' = "done") <=> (Root \notin alive \/ elapsed' >= tki[1])
             /\ (kpc' = "done") => (pass2' # None /\ pass2'[1] = pids'))]_vars

\* a call with a grace period of two steps has ended its wait after one step,
\* because the root was gone, and has sent SIGKILL to a descendant that was
\* still in the table
C23_Witness ==
    /\ kpc = "done" /\ tki = Some(MaxWait) /\ elapsed = 1
    /\ Root \notin alive /\ pass2 # None
    /\ \E p \in pass2[1] : p \in alive /\ sent[p] = {SIGTERM, SIGKILL}

\* the pids reachable from pid by parent-to-child edges of the snapshot sys
Descendants(pid, sys) ==
    LET step(S) == S \cup {i \in DOMAIN sys : sys[i] = pid \/ sys[i] \in S}
        RECURSIVE upto(_, _)
        upto(k, S) == IF k = 0 THEN S ELSE upto(k - 1, step(S))
    IN  upto(NPids, {})

\* C25: on every snapshot, one with a cycle of parent pointers included, the
\* call returns (it does not run out of stack), and the set then holds
\* exactly the pids reachable from the root.
C25_WalkTerminates ==
    /\ wpc # "overflow"
    /\ wpc = "ret" => wto = Descendants(Root, wsys)

(* -------------------------- claims on command -------------------------- *)

\* the lines 1..n, in the order the child wrote them
Lines(n) == [i \in 1 .. n |-> i]

\* C1: when the child exits by itself with code c while the guard's timeout is
\* still running, command returns Ok with code = Some(c), out = exactly the
\* lines the child wrote to stdout and err = exactly those it wrote to stderr,
\* whatever the interleaving of the tasks over the capacity-2 channel.
C1_ExactResult ==
    (ctl = "ret" /\ exited = "code" /\ early) =>
        /\ rstatus = "Ok"
        /\ rcode = Some(ccode)
        /\ rout = Lines(wrote["out"])
        /\ rerr = Lines(wrote["err"])

\* command has returned code 1 and two stdout lines of a child that left early
C1_Witness ==
    /\ ctl = "ret" /\ exited = "code" /\ early
    /\ rcode = Some(1) /\ rout = << 1, 2 >>

\* C2: for a child that never exits by itself and ignores SIGTERM, command with
\* timeout T and Options::tki = G returns, and returns Ok with code = None no
\* later than T + G plus one poll step; it never returns a numeric code.
C2_Terminated ==
    /\ [](ctl = "ret" /\ Root \in stubborn /\ tki # None =>
            /\ rstatus = "Ok" /\ rcode = None
            /\ clock <= timeout + tki[1] + 1)
    /\ <>(ctl = "ret" \/ ~(Root \in stubborn /\ tki # None))

\* command has returned Terminated for a stubborn child after a grace period,
\* with the forced signal sent
C2_Witness ==
    /\ ctl = "ret" /\ Root \in stubborn /\ tki = Some(1)
    /\ rstatus = "Ok" /\ rcode = None
    /\ SIGKILL \in sent[Root] /\ clock = timeout + 1

\* C4: when command returns Err after an Error event, the kill sequence has been
\* run against the child's process tree: every live process of the tree (the
\* child and its descendants) has been sent a signal.
C4_KillOnError ==
    (ctl = "ret" /\ rstatus = "Err") =>
        \A p \in get_child_pids_recursive(Root, refresh_processes, {Root}) :
            p \in alive => sent[p] # {}

\* C6: command returns only after it has acted on exactly one terminal event,
\* and then the guard has ended or is cancelled and so is every other task of
\* the execution.
C6_OneTerminalAllCancelled ==
    /\ terminals <= 1
    /\ ctl = "ret" =>
        /\ terminals = 1
        /\ guard \in {"done", "aborted"}
        /\ runner \in {"done", "aborted"}
        /\ \A s \in Streams : rd[s] \in {"done", "aborted"}
        /\ stdinW \in {"none", "done", "failed", "aborted"}

\* C7: every call of command eventually returns, also when the child exits
\* normally while a descendant keeps the pipes open.
C7_Returns == <>(ctl = "ret")

\* a sequence is the first k lines a stream of n lines, in their order
IsPrefixOfLines(q, n) == Len(q) <= n /\ q = Lines(Len(q))

\* C13: in every result command returns with Ok (Finished or Terminated), out
\* is a prefix of the lines the child wrote to stdout and err a prefix of those
\* it wrote to stderr, in order and without duplicates.
C13_PerStreamPrefix ==
    (ctl = "ret" /\ rstatus = "Ok") =>
        /\ IsPrefixOfLines(rout, wrote["out"])
        /\ IsPrefixOfLines(rerr, wrote["err"])

\* command has returned Terminated with the first of two stdout lines
C13_Witness ==
    /\ ctl = "ret" /\ rstatus = "Ok" /\ rcode = None
    /\ wrote["out"] = 2 /\ rout = << 1 >>

\* the frames of stream s that are in the channel
InChannel(s) == Cardinality({ i \in 1 .. Len(chan) : chan[i].t = Tag(s) })

\* the lines of stream s in the result
Kept(s) == IF s = "out" THEN rout ELSE rerr

\* C14: the channel never holds more than 2 events; a line a reader has read
\* is in the result, in the channel or in the reader's suspended send, once,
\* as long as the reader is not cancelled; so a Finished result holds every
\* line that was read.
C14_BoundedNoLoss ==
    /\ Len(chan) <= ChanCap
    /\ \A s \in Streams :
          rd[s] # "aborted" =>
              got[s] = Len(Kept(s)) + InChannel(s)
                          + (IF rd[s] = "send" THEN 1 ELSE 0)
    /\ (ctl = "ret" /\ rstatus = "Ok" /\ rcode # None) =>
          \A s \in Streams : Kept(s) = Lines(got[s])

\* the channel is full and the stdout reader is suspended in the send of the
\* second line it has read
C14_Witness ==
    /\ Len(chan) = ChanCap /\ rd["out"] = "send" /\ got["out"] = 2
    /\ ctl # "ret"

\* C15: once the control loop has processed Finished while the guard had not
\* started its kill sequence, the guard is aborted and stays so, no signal is
\* sent to any process, no Terminated event exists, and the result keeps the
\* child's exit code.
C15_FinishedBeatsGuard ==
    /\ []((ctl # "recv" /\ rcode # None /\ kpc = "call") =>
            /\ guard = "aborted"
            /\ \A p \in Pids : sent[p] = {}
            /\ \A i \in 1 .. Len(chan) : chan[i].t # "Terminated"
            /\ rcode = Some(ccode)
            /\ ctl = "ret" => rstatus = "Ok")
    /\ [][(ctl # "recv" /\ rcode # None /\ kpc = "call") =>
            (kpc' = "call" /\ sent' = sent /\ rcode' = rcode)]_vars

\* command has returned code 1 of a child that left before the guard fired;
\* the guard was aborted in its sleep
C15_Witness ==
    /\ ctl = "ret" /\ rcode = Some(1) /\ kpc = "call"
    /\ guard = "aborted" /\ gtimer > 0

\* C24: a Terminated event exists only when the guard has sent it as its last
\* step, after kill_pstree has returned: the forced pass has been made and
\* every process of the child's tree has been sent SIGKILL or has left the
\* table; so it is when command returns the Terminated outcome. An aborted
\* guard stays aborted and has put no Terminated event on the channel.
C24_TerminatedAfterKill ==
    /\ [] ( /\ (\E i \in 1 .. Len(chan) : chan[i].t = "Terminated") =>
                    guard = "done"
            /\ (guard = "done") =>
                   (/\ kpc = "done"
                    /\ tki # None => pass2 # None
                    /\ \A p \in tree0 : p \notin alive \/ SIGKILL \in sent[p])
            /\ (ctl = "ret" /\ rstatus = "Ok" /\ rcode = None) => guard = "done"
            /\ (guard = "aborted") =>
                   \A i \in 1 .. Len(chan) : chan[i].t # "Terminated" )
    /\ [][(guard = "aborted") => (guard' = "aborted")]_vars

\* command has returned the Terminated outcome after a grace period; the
\* child ignored SIGTERM, is still in the table and has been sent SIGKILL
C24_Witness ==
    /\ ctl = "ret" /\ rstatus = "Ok" /\ rcode = None /\ guard = "done"
    /\ tki # None /\ elapsed > 0 /\ pass2 # None
    /\ Root \in alive /\ Root \in stubborn /\ SIGKILL \in sent[Root]

\* C16: a failed write or flush of the stdin writer ends the writer without
\* any event on the channel and without any effect on the other tasks, command
\* never returns Err because of it, and a child that exits in time still gets
\* its exact Finished result.
C16_WriteFailureNotFatal ==
    /\ [](rstatus # "Err")
    /\ []((ctl = "ret" /\ stdinW = "failed" /\ exited = "code" /\ early) =>
            /\ rstatus = "Ok" /\ rcode = Some(ccode)
            /\ rout = Lines(wrote["out"]) /\ rerr = Lines(wrote["err"]))
    /\ [][(stdinW = "run" /\ stdinW' = "failed") =>
            /\ chan' = chan
            /\ << ctl, rcode, rout, rerr, rstatus, terminals >>' =
                   << ctl, rcode, rout, rerr, rstatus, terminals >>
            /\ << rd, runner, guard >>' = << rd, runner, guard >>]_vars

\* command has returned code 1 and two stdout lines although the write to the
\* child's stdin had failed
C16_Witness ==
    /\ ctl = "ret" /\ stdinW = "failed" /\ rstatus = "Ok"
    /\ rcode = Some(1) /\ rout = << 1, 2 >>

\* C17: when command is given input data and the child copies its stdin to
\* its stdout until end-of-input and exits while the guard's timeout is still
\* running, the whole payload has been written, the child's stdin has been
\* closed, and the captured stdout is the payload, line by line.
C17_PayloadDelivered ==
    (ctl = "ret" /\ exited = "code" /\ early) =>
        /\ inleft = 0 /\ inpipe = 0 /\ stdinW = "done"
        /\ rstatus = "Ok" /\ rcode = Some(0)
        /\ rout = Lines(input_data) /\ rerr = << >>

\* command has returned the two lines of the payload
C17_Witness ==
    /\ ctl = "ret" /\ exited = "code" /\ early
    /\ input_data = 2 /\ rout = << 1, 2 >> /\ stdinW = "done"

C12_ReadErrorIsFatal ==
    (/\ ctl = "ret" /\ faults \in Streams /\ rd[faults] = "done"
     /\ \A i \in 1 .. Len(chan) : chan[i].t # "Error") =>
        rstatus = "Err"

(* ------------------------- claims on sync.rs --------------------------- *)

\* C19: when release returns while an acquirer holds the lock with the token
\* acquire returned to it: a different token gets Err, the holder's token is
\* accepted and releases the holder, and None releases the holder.
C19_ReleaseByToken ==
    (rel # None /\ rel[1].cur # 0) =>
        LET r == rel[1] IN
        IF r.tok # None /\ r.tok[1] # Token(r.cur)
        THEN r.res \in {"ErrInvalidLockToken", "ErrLockNotDefined"}
        ELSE r.res = "true" /\ r.to = r.cur

\* C26: the Mutex has one holder task at a time, and the lock of an
\* acquisition whose acquire has returned ends only by a release (with its
\* token or forced) or by its expiry: a late insert of an earlier acquirer
\* never ends it.
C26_MutualExclusion ==
    /\ Cardinality({n \in Acqs : hpc[n] \in Holding}) <= 1
    /\ \A n \in Acqs :
          (apc[n] = "done" /\ hpc[n] \in {"woken", "cleared", "ended"}) =>
              cause[n] \in {"release", "expire"}

\* C27: a holder task has the Mutex for at most `expires` ticks, no tick
\* passes while a holder waits with every Sender of its channel dropped, and,
\* with or without calls of release, there comes a moment from which every
\* acquire that was called has returned and every lock that was taken has
\* been released: no waiter is blocked forever.
C27_ExpiresAndReturns ==
    /\ [](\A n \in Acqs : hpc[n] \in Holding => age[n] <= expires[n])
    /\ [][(\E n \in Acqs : hpc[n] = "held" /\ ~SenderAlive(n)) => age' = age]_vars
    /\ <>[](\A n \in Acqs : /\ apc[n] \in {"idle", "done"}
                             /\ hpc[n] \in {"none", "ended"})

\* release was never called; the first lock was held for its whole `expires`
\* and has expired while the holder task of the second acquire waits for the
\* Mutex
C27_Witness ==
    /\ rel = None /\ rpc = None /\ \A n \in Acqs : trues[n] = 0
    /\ hpc[1] = "woken" /\ cause[1] = "expire"
    /\ age[1] = expires[1] /\ expires[1] = MaxExpire
    /\ apc[2] = "outer" /\ hpc[2] = "wait"

\* C28: the flag is true only while exactly one holder task is between its
\* store(true) and its store(false), with the Mutex; while a holder waits for
\* its release the flag is true (no earlier holder has cleared it); status and
\* acquire on a lock_id that is not defined return NotFound and define nothing.
C28_FlagMeansHeld ==
    /\ flag => Cardinality({n \in Acqs : hpc[n] \in {"held", "woken"}}) = 1
    /\ Cardinality({n \in Acqs : hpc[n] \in Holding}) <= 1
    /\ \A n \in Acqs : hpc[n] = "held" => flag
    /\ shared_locks = {DefinedId}
    /\ sres # None =>
          IF sres[1].id = DefinedId
          THEN sres[1].op = "status" /\ sres[1].res \in {"true", "false"}
          ELSE sres[1].res = "ErrLockNotDefined"

\* status has returned true for the second holder, which took the Mutex
\* after the first holder had cleared the flag and ended
C28_Witness ==
    /\ sres # None /\ sres[1].op = "status" /\ sres[1].res = "true"
    /\ flag /\ hpc[1] = "ended" /\ hpc[2] = "held"

\* the scheduler tasks of worker id that have not been aborted
LiveTasks(tasks, id) ==
    { h \in 1 .. Len(tasks) : tasks[h].id = id /\ tasks[h].st = "run" }

\* C21: after any sequence of create, recreate and destroy the keys of the
\* map are exactly the ids with a scheduler task that is not aborted, and that
\* task is the only one of its id and the one the map holds; a create on an
\* existing id returned Duplicate and a destroy on an unknown id NotFound,
\* both changing nothing; a recreate left the old task aborted.
C21_OneSchedulerPerId ==
    /\ \A id \in WorkerIds :
          LiveTasks(stasks, id) =
              IF schedulers[id] = 0 THEN {} ELSE {schedulers[id]}
    /\ fres # None =>
          LET r == fres[1] IN
          /\ (r.op = "create" /\ r.old # 0) =>
                (/\ r.res = "ErrDuplicate" /\ stasks = r.was
                 /\ schedulers[r.id] = r.old /\ stasks[r.old].st = "run")
          /\ (r.op = "create" /\ r.old = 0) => r.res = "Ok"
          /\ (r.op = "destroy" /\ r.old = 0) =>
                (r.res = "ErrNotFound" /\ stasks = r.was /\ schedulers[r.id] = 0)
          /\ (r.op = "destroy" /\ r.old # 0) =>
                (r.res = "Ok" /\ schedulers[r.id] = 0
                 /\ stasks[r.old].st = "aborted")
          /\ (r.op = "recreate" /\ r.old # 0) =>
                (/\ stasks[r.old].st = "aborted"
                 /\ schedulers[r.id] = Len(stasks) /\ Len(stasks) = Len(r.was) + 1)

\* a worker was created, recreated and recreated again: two of its scheduler
\* tasks are aborted, the third runs and is the one in the map
C21_Witness ==
    /\ fres # None /\ fres[1].op = "recreate" /\ fres[1].old = 2
    /\ Len(stasks) = 3 /\ schedulers["w1"] = 3
    /\ \A h \in 1 .. 3 : stasks[h].id = "w1"
    /\ stasks[1].st = "aborted" /\ stasks[2].st = "aborted" /\ stasks[3].st = "run"

\* C22: safe_send returns Ok exactly when it has enqueued its message, once;
\* it returns Timeout when the channel was full and open for the whole
\* timeout, and only when the whole timeout has passed, and then the message
\* is not enqueued, then or later; it returns
\* Internal when the Receiver is closed, at the call or while it waits; it
\* returns after at most `timeout`.
C22_SafeSend ==
    /\ [] ( /\ waited <= stimeout
            /\ menq = (IF sret = Some("Ok") THEN 1 ELSE 0)
            /\ (spc = "done") <=> (sret # None)
            /\ (sret = Some("ErrTimeout")) => (waited = stimeout)
            /\ (spc = "done" /\ fullall) => (sret = Some("ErrTimeout"))
            /\ (sret = Some("ErrInternal")) => ~rxopen )
    /\ [][ /\ (spc = "done") => (menq' = menq /\ sret' = sret)
           /\ (spc # "done" /\ spc' = "done" /\ ~rxopen) =>
                  (sret' = Some("ErrInternal")) ]_vars

\* the call has returned Timeout after the whole timeout on a channel that
\* is still full and open, with nothing enqueued
C22_Witness ==
    /\ sret = Some("ErrTimeout") /\ stimeout = MaxSendTimeout
    /\ waited = stimeout /\ qlen = SendCap /\ rxopen /\ menq = 0

\* C29: the target is started at most once per call of notify_waiters, and
\* only by a call made while the worker waited in notified(); a call made
\* while the target runs changes nothing, the target returns to waiting and
\* not to another run; the k-th call is made at time (k - 1) * interval by
\* run_instant and at k * interval by run.
C29_TicksNotQueued ==
    /\ [] ( /\ runs <= nticks
            /\ (nticks >= 1) =>
                  (tlast = interval * (nticks - (IF instant THEN 1 ELSE 0))) )
    /\ [][ /\ (wk = "running") => (wk' \in {"running", "waiting"})
           /\ (wk' = "notified" /\ wk # "notified") =>
                  (wk = "waiting" /\ nticks' = nticks + 1)
           /\ (runs' # runs) => (wk = "notified" /\ runs' = runs + 1) ]_vars

\* the Scheduler (run) has notified twice; the first call started the target,
\* which still runs: the second call was lost
C29_Witness ==
    /\ ~instant /\ nticks = 2 /\ runs = 1 /\ wk = "running"
    /\ tlast = 2 * interval /\ schedt = 0

\* C20: for one acquisition at most one call of Lock::release returns true.
C20_OneTrueRelease ==
    \A n \in Acqs : trues[n] <= 1

(* ------------------------ claims on command_pipe ----------------------- *)

\* C3: the Terminated frame is put on the output channel only after both
\* reader tasks have finished, so no Stdout or Stderr frame follows it.
C3_TerminatedAfterReaders ==
    /\ ptask = "done" => \A s \in Streams : rd[s] = "done"
    /\ \A i \in 1 .. Len(delivered) :
          delivered[i].t = "Terminated" => i = Len(delivered)

\* C5: a numeric code is reported only when the child itself returned it.
C5_CodeIsTheChilds ==
    \A i \in 1 .. Len(delivered) :
        delivered[i].t = "Terminated" =>
            exited = "code" /\ delivered[i].v = ccode

====
